---- MODULE Spec2Model ----
(***************************************************************************)
(* fms::lmm<T,F> (GR5260/fms_lmm.h): the LIBOR Market Model sampler.       *)
(*                                                                         *)
(* One lmm object, its owned fms::brownian<F> driver B and the caller's    *)
(* output buffer f_.  Vectors are functions over 0..n-1, as in the source. *)
(* The numeric types T and F (double) are fixed point numbers: the integer *)
(* x stands for x/One.  Sums, differences, products of the inputs used     *)
(* here and the halvings are exact in this representation; exp is computed *)
(* by range reduction and a truncated series (exp(0) is exactly One).      *)
(***************************************************************************)
EXTENDS Integers, Sequences, FiniteSets, TLC

VARIABLES
    constructed, \* the lmm object exists
    t,           \* lmm::t     reset times
    phi,         \* lmm::phi   futures quotes
    sigma,       \* lmm::sigma caplet volatilities
    B,           \* lmm::B     the driver: [t |-> path time, v |-> components]
    f_,          \* the caller's buffer passed to advance
    path,        \* history: u of the last successful advance since reset
    ret,         \* outcome of the most recent call
    trace        \* driver calls, component reads and buffer writes of that call

vars == <<constructed, t, phi, sigma, B, f_, path, ret, trace>>

---------------------------------------------------------------------------
(* Bounds and input sets *)

\* largest term structure length that is constructed
MaxN == 2

\* the fixed point unit: the integer One stands for 1.0
One == 1000

TimeVals == {0, One, 2 * One}
IncVals == {0 - One, One}
\* the driver has a component for every tenor of the longest term structure,
\* or is one short
DimVals == {MaxN - 1, MaxN}
BVals == {0 - One, 0, One}

Vec(n, S) == [0 .. n - 1 -> S]
EmptyVec == [k \in {} |-> 0]
Len0(v) == Cardinality(DOMAIN v)

\* volatility curves offered to the constructor: none, sigma[0] = 0 and the
\* rest One, all One (sigma[0] # 0), and only the last tenor volatile
SigmaCurves(n) ==
    {[k \in 0 .. n - 1 |-> 0],
     [k \in 0 .. n - 1 |-> IF k = 0 THEN 0 ELSE One],
     [k \in 0 .. n - 1 |-> One],
     [k \in 0 .. n - 1 |-> IF k = n - 1 THEN One ELSE 0]}

\* the futures curve offered to the constructor: rising with the index
PhiCurves(n) == {[k \in 0 .. n - 1 |-> (k + 1) * One]}

---------------------------------------------------------------------------
(* Fixed point arithmetic standing for double.  A finite value x/One is    *)
(* the integer x; the non-finite doubles are three values of their own.    *)
(* Results are rounded to the nearest representable value.                 *)

PosInf == 2 * One * One * One
NegInf == 0 - PosInf
NaN == PosInf + One

IsFinite(x) == x \notin {NaN, PosInf, NegInf}

Sign(x) == IF x > 0 THEN 1 ELSE IF x < 0 THEN 0 - 1 ELSE 0

\* a / b rounded to the nearest integer, b > 0
RoundDiv(a, b) == (2 * a + b) \div (2 * b)

\* a product with a non-finite factor: NaN * x, 0 * Inf are NaN, else +-Inf
NonFiniteMul(a, b) ==
    IF a = NaN \/ b = NaN \/ Sign(a) * Sign(b) = 0 THEN NaN
    ELSE IF Sign(a) * Sign(b) > 0 THEN PosInf ELSE NegInf

\* a * b
MulF(a, b) ==
    IF IsFinite(a) /\ IsFinite(b) THEN RoundDiv(a * b, One) ELSE NonFiniteMul(a, b)

\* a - b
SubF(a, b) ==
    IF IsFinite(a) /\ IsFinite(b) THEN a - b
    ELSE IF a = NaN \/ b = NaN THEN NaN
    ELSE IF IsFinite(b) THEN a
    ELSE IF IsFinite(a) THEN Sign(0 - b) * PosInf
    ELSE IF a = b THEN NaN ELSE a

\* a / 2
HalfF(a) == IF IsFinite(a) THEN RoundDiv(a, 2) ELSE a

\* a == b and a > b of doubles: false as soon as a NaN is compared
EqF(a, b) == a # NaN /\ b # NaN /\ a = b
GtF(a, b) == a # NaN /\ b # NaN /\ a > b

(* exp is computed with three more digits than a stored value carries: its *)
(* finite results are in units of 1/(One*One).                             *)

\* the product of two values in units of 1/(One*One), in those units
MulU(a, b) ==
    LET a1 == a \div One
        a0 == a % One
        b1 == b \div One
        b0 == b % One
    IN a1 * b1 + RoundDiv(a1 * b0 + a0 * b1 + RoundDiv(a0 * b0, One), One)

\* sqrt(e) = 1.6487212... and 1/sqrt(e) = 0.6065306..., in units of 1/(One*One)
SqrtE == 1648721
InvSqrtE == 606531

RECURSIVE SeriesFrom(_, _, _)
\* term + term*x/i + term*x^2/(i(i+1)) + ... , x and term in units of 1/(One*One)
SeriesFrom(term, x, i) ==
    IF term = 0 THEN 0
    ELSE term + SeriesFrom(RoundDiv(MulU(term, x), i), x, i + 1)

\* exp(r/One) for 0 <= r < One/2, by its power series
ExpSeries(r) == SeriesFrom(One * One, r * One, 1)

RECURSIVE ExpHalves(_)
\* exp(h/2) for an integer h
ExpHalves(h) ==
    IF h = 0 THEN One * One
    ELSE IF h > 0 THEN MulU(ExpHalves(h - 1), SqrtE)
    ELSE MulU(ExpHalves(h + 1), InvSqrtE)

\* exp(x/One): x = h * One/2 + r with 0 <= r < One/2; exp(NaN) = NaN,
\* exp(+Inf) = +Inf, exp(-Inf) = 0
exp(x) ==
    IF x = NaN THEN NaN
    ELSE IF x = PosInf THEN PosInf
    ELSE IF x = NegInf THEN 0
    ELSE LET half == One \div 2
             h == x \div half
             r == x % half
         IN MulU(ExpHalves(h), ExpSeries(r))

\* p * e for a stored value p and a result e of exp
MulExp(p, e) ==
    IF IsFinite(p) /\ IsFinite(e)
    THEN RoundDiv(p * (e \div One) + RoundDiv(p * (e % One), One), One)
    ELSE NonFiniteMul(p, e)

\* what a read outside the driver's components may find: any double, here
\* a few finite ones and the non-finite ones
GarbageVals == {0, 2 * One, NaN, PosInf, NegInf}

---------------------------------------------------------------------------
(* The driver fms::brownian<F> (fms_brownian.h, not part of the sources     *)
(* at hand): modelled from its contract.                                   *)

\* the driver as constructed from a d-dimensional correlation
BrownianInit(d) == [t |-> 0, v |-> [k \in 0 .. d - 1 |-> 0]]

\* brownian::reset: time 0, zero realized path
BrownianReset(b) == [t |-> 0, v |-> [k \in DOMAIN b.v |-> 0]]

\* brownian::advance(u, r): the path is taken to time u; the randomness
\* consumed from r is the increment r[k] of each component
BrownianAdvance(b, u, r) == [t |-> u, v |-> [k \in DOMAIN b.v |-> b.v[k] + r[k]]]

\* brownian::operator[]: component k of a d-dimensional driver; an index
\* k >= d is outside the components and the value read is whatever lies
\* there (a read that traps instead ends the program: the behaviour stops)
BrownianRead(b, k, g) == IF k \in DOMAIN b.v THEN b.v[k] ELSE g[k]

\* ensure(e) of the fms library: passes when e holds, throws otherwise
ensure(e) == e

---------------------------------------------------------------------------
(* fms::lmm *)

\* lmm::size
size == Len0(t)

RECURSIVE upper_bound_from(_, _, _, _)
\* the binary search of std::upper_bound over v[first .. first+len-1]
upper_bound_from(v, first, len, u) ==
    IF len <= 0 THEN first
    ELSE LET half == len \div 2
             middle == first + half
         IN IF u < v[middle]
            THEN upper_bound_from(v, first, half, u)
            ELSE upper_bound_from(v, middle + 1, len - half - 1, u)

\* a search that stops at the first element not below u
RECURSIVE lower_bound_from(_, _, _, _)
lower_bound_from(v, first, len, u) ==
    IF len <= 0 THEN first
    ELSE LET half == len \div 2
             middle == first + half
         IN IF v[middle] < u
            THEN lower_bound_from(v, middle + 1, len - half - 1, u)
            ELSE lower_bound_from(v, first, half, u)

lower_bound(v, u) == lower_bound_from(v, 0, Len0(v), u)

\* std::upper_bound(t.begin(), t.end(), u) - t.begin()
upper_bound(v, u) == upper_bound_from(v, 0, Len0(v), u)

\* phi[k]*exp(sigma[k]*B[k] - sigma[k]*sigma[k]*u/2), b the value read for B[k]
futures(k, u, b) ==
    MulExp(phi[k],
           exp(SubF(MulF(sigma[k], b), HalfF(MulF(MulF(sigma[k], sigma[k]), u)))))

\* sigma[k]*sigma[k]*dt*dt/2 with dt = t[k-1] - u
convexity(k, u) ==
    LET dt == SubF(t[k - 1], u)
    IN HalfF(MulF(MulF(MulF(sigma[k], sigma[k]), dt), dt))

\* the adjustment added to the futures value instead of subtracted
forward_added(k, u, b) ==
    IF k > 0 THEN SubF(futures(k, u, b), SubF(0, convexity(k, u))) ELSE futures(k, u, b)

\* the value the loop body leaves in f_[k]
forward(k, u, b) ==
    IF k > 0 THEN SubF(futures(k, u, b), convexity(k, u)) ELSE futures(k, u, b)

\* a loop that starts at index 0 whatever j is
LoopFromZero(j) == 0 .. size - 1

\* the indices the loop visits: for (k = j; k < t.size(); ++k)
LoopRange(j) == j .. size - 1

RECURSIVE LoopTrace(_, _)
\* the loop's accesses in order: B[k] is read and f_[k] assigned, then for
\* k > 0 f_[k] is assigned again by the adjustment
LoopTrace(k, ks) ==
    IF k > size - 1 THEN <<>>
    ELSE (IF k \in ks
          THEN <<[e |-> "read", k |-> k], [e |-> "write", k |-> k]>>
               \o (IF k > 0 THEN <<[e |-> "write", k |-> k]>> ELSE <<>>)
          ELSE <<>>)
         \o LoopTrace(k + 1, ks)

\* the indices outside the driver, each with the value a read finds there
Stray == [(0 .. size - 1) \ DOMAIN B.v -> GarbageVals]

\* the same for the indices advance(u) reads; the other entries do not matter
StrayRead(u) ==
    LET j == upper_bound(t, u)
        read == {k \in (0 .. size - 1) \ DOMAIN B.v : k >= j}
    IN {[k \in (0 .. size - 1) \ DOMAIN B.v |-> IF k \in read THEN g[k] ELSE 0] :
           g \in [read -> GarbageVals]}

\* lmm::lmm(n, t, phi, sigma, e): the first n entries are copied, B is built from e
Construct(n, ti, phii, sigmai, d) ==
    /\ ~constructed
    /\ constructed' = TRUE
    /\ t' = ti
    /\ phi' = phii
    /\ sigma' = sigmai
    /\ B' = BrownianInit(d)
    /\ f_' = [k \in 0 .. n - 1 |-> 0]
    /\ path' = 0
    /\ ret' = [op |-> "construct", status |-> "ok", u |-> 0, r |-> EmptyVec,
               j |-> 0, after |-> "none"]
    /\ trace' = <<>>

\* a reset that leaves the driver as it is
ResetSkipped ==
    /\ constructed
    /\ path' = 0
    /\ ret' = [op |-> "reset", status |-> "ok", u |-> 0, r |-> EmptyVec,
               j |-> 0, after |-> ret.op]
    /\ trace' = <<>>
    /\ UNCHANGED <<constructed, t, phi, sigma, B, f_>>

\* lmm::reset
Reset ==
    /\ constructed
    /\ B' = BrownianReset(B)
    /\ path' = 0
    /\ ret' = [op |-> "reset", status |-> "ok", u |-> 0, r |-> EmptyVec,
               j |-> 0, after |-> ret.op]
    /\ trace' = <<[e |-> "reset", k |-> 0 - 1]>>
    /\ UNCHANGED <<constructed, t, phi, sigma, f_>>

\* a failure raised only after the driver has been advanced
AdvanceThrowLate(u, r) ==
    /\ B' = BrownianAdvance(B, u, r)
    /\ ret' = [op |-> "advance", status |-> "OutOfRange", u |-> u, r |-> r,
               j |-> 0 - 1, after |-> ret.op]
    /\ trace' = <<[e |-> "advance", k |-> 0 - 1]>>
    /\ UNCHANGED <<constructed, t, phi, sigma, f_, path>>

\* advance when ensure (tj != t.end()) throws: nothing after it runs
AdvanceThrow(u, r) ==
    /\ ret' = [op |-> "advance", status |-> "OutOfRange", u |-> u, r |-> EmptyVec,
               j |-> 0 - 1, after |-> ret.op]
    /\ trace' = <<>>
    /\ UNCHANGED <<constructed, t, phi, sigma, B, f_, path>>

\* the sample is also stored back into phi
AdvanceRunInPlace(u, r, g, j) ==
    LET b == BrownianAdvance(B, u, r)
        s == [k \in 0 .. size - 1 |->
                 IF k \in LoopRange(j) THEN forward(k, u, BrownianRead(b, k, g)) ELSE f_[k]]
    IN /\ B' = b
       /\ f_' = s
       /\ phi' = [k \in 0 .. size - 1 |-> IF k \in LoopRange(j) THEN s[k] ELSE phi[k]]
       /\ path' = u
       /\ ret' = [op |-> "advance", status |-> "ok", u |-> u, r |-> r,
                  j |-> j, after |-> ret.op]
       /\ trace' = <<[e |-> "advance", k |-> 0 - 1]>> \o LoopTrace(0, LoopRange(j))
       /\ UNCHANGED <<constructed, t, sigma>>

\* advance past the ensure: B.advance(u, r), the loop, return j
AdvanceRun(u, r, g, j) ==
    LET b == BrownianAdvance(B, u, r)
    IN /\ B' = b
       /\ f_' = [k \in 0 .. size - 1 |->
                    IF k \in LoopRange(j) THEN forward(k, u, BrownianRead(b, k, g)) ELSE f_[k]]
       /\ path' = u
       /\ ret' = [op |-> "advance", status |-> "ok", u |-> u, r |-> r,
                  j |-> j, after |-> ret.op]
       /\ trace' = <<[e |-> "advance", k |-> 0 - 1]>> \o LoopTrace(0, LoopRange(j))
       /\ UNCHANGED <<constructed, t, phi, sigma>>

\* the random inputs offered to a call: those that keep the path within BVals
Draws == {r \in Vec(Len0(B.v), IncVals) : \A k \in DOMAIN B.v : B.v[k] + r[k] \in BVals}

\* lmm::advance(u, f_, r)
Advance(u, r, g) ==
    /\ constructed
    /\ LET j == upper_bound(t, u)
       IN IF ensure(j # size) THEN AdvanceRun(u, r, g, j) ELSE AdvanceThrow(u, r)

---------------------------------------------------------------------------
(* The program: a model is constructed once, then reset and advance are    *)
(* called in any order with any arguments.                                 *)

Init ==
    /\ constructed = FALSE
    /\ t = EmptyVec
    /\ phi = EmptyVec
    /\ sigma = EmptyVec
    /\ B = BrownianInit(0)
    /\ f_ = EmptyVec
    /\ path = 0
    /\ ret = [op |-> "none", status |-> "ok", u |-> 0, r |-> EmptyVec,
              j |-> 0, after |-> "none"]
    /\ trace = <<>>

Next ==
    \/ \E n \in 0 .. MaxN, d \in DimVals :
          \E ti \in Vec(n, TimeVals), phii \in PhiCurves(n), sigmai \in SigmaCurves(n) :
             Construct(n, ti, phii, sigmai, d)
    \/ Reset
    \/ \E u \in TimeVals, r \in Draws : \E g \in StrayRead(u) : Advance(u, r, g)

Spec == Init /\ [][Next]_vars

---------------------------------------------------------------------------
(* Properties *)

StrictlyIncreasing(v) == \A a, b \in DOMAIN v : a < b => v[a] < v[b]
NonDecreasing(v) == \A a, b \in DOMAIN v : a < b => v[a] <= v[b]
AdvanceOk == constructed /\ ret.op = "advance" /\ ret.status = "ok"
AdvanceFailed == constructed /\ ret.op = "advance" /\ ret.status = "OutOfRange"
Events(kind) == {trace[i].k : i \in {x \in 1 .. Len(trace) : trace[x].e = kind}}
\* t[j-1], with t[-1] = 0
Before(j) == IF j = 0 THEN 0 ELSE t[j - 1]

\* C1: on a model with strictly increasing t and n >= 1, advance(u) with
\* u < t[n-1] succeeds and returns the smallest j with t[j] > u, so that
\* t[j-1] <= u < t[j] (t[-1] = 0); when u = t[k] for some k < n-1 it returns k+1.
C1_StrictUpperBound ==
    (constructed /\ ret.op = "advance" /\ StrictlyIncreasing(t) /\ size >= 1
        /\ ret.u < t[size - 1])
    => /\ ret.status = "ok"
       /\ ret.j \in 0 .. size - 1
       /\ t[ret.j] > ret.u
       /\ \A i \in 0 .. ret.j - 1 : t[i] <= ret.u
       /\ Before(ret.j) <= ret.u
       /\ \A k \in 0 .. size - 2 : ret.u = t[k] => ret.j = k + 1

C1_Witness ==
    /\ AdvanceOk
    /\ StrictlyIncreasing(t)
    /\ \E k \in 0 .. size - 2 : ret.u = t[k] /\ ret.j = k + 1

\* C2: advance(u) with u at or beyond the last term point (or on an empty
\* term structure) fails with OutOfRange, and a failed advance leaves the
\* driver's time and components, the buffer and the parameters as they were.
C2_FailureLeavesDriver ==
    [][/\ (constructed /\ ret'.op = "advance" /\ NonDecreasing(t)
              /\ (size = 0 \/ ret'.u >= t[size - 1]))
          => ret'.status = "OutOfRange"
       /\ (ret'.op = "advance" /\ ret'.status = "OutOfRange")
          => (B' = B /\ f_' = f_ /\ path' = path /\ t' = t /\ phi' = phi
              /\ sigma' = sigma /\ trace' = <<>>)]_vars

C2_Witness ==
    /\ AdvanceFailed
    /\ size >= 1
    /\ ret.u >= t[size - 1]
    /\ B.t > 0
    /\ \E k \in DOMAIN B.v : B.v[k] # 0

\* C3: a successful advance returning j writes every buffer index in j..n-1
\* and leaves every index below j with the value it had before the call.
C3_WritesFromJ ==
    [][(constructed /\ ret'.op = "advance" /\ ret'.status = "ok")
       => /\ Events("write")' = ret'.j .. size - 1
          /\ \A k \in 0 .. ret'.j - 1 : f_'[k] = f_[k]]_vars

C3_Witness ==
    /\ AdvanceOk
    /\ ret.j >= 1
    /\ f_[0] # 0
    /\ Events("write") = ret.j .. size - 1

\* C4: once constructed, t, phi, sigma and size() never change, whatever
\* reset, successful advance or failed advance is called.
C4_ParametersFixed ==
    [][constructed
       => (t' = t /\ phi' = phi /\ sigma' = sigma /\ size' = size)]_vars

C4_Witness ==
    /\ constructed
    /\ ret.op = "reset"
    /\ ret.after = "advance"
    /\ \E k \in DOMAIN f_ : f_[k] # 0

\* the values a newly constructed model with the same parameters can write
\* at index k for advance(u) fed the random input r
FreshSamples(k, u, r) ==
    {forward(k, u, BrownianRead(BrownianAdvance(BrownianInit(Len0(B.v)), u, r), k, g)) :
        g \in Stray}

\* C5: reset() followed by advance(u, r) returns the j and writes the values
\* that the same advance returns and writes on a newly constructed model
\* with the same parameters.
C5_ResetAsFresh ==
    (AdvanceOk /\ ret.after = "reset")
    => /\ ret.j = upper_bound(t, ret.u)
       /\ \A k \in ret.j .. size - 1 : \A x \in FreshSamples(k, ret.u, ret.r) : f_[k] = x

\* the same, on the models whose driver has a component for every tenor
C5_ResetAsFreshInRange ==
    (AdvanceOk /\ ret.after = "reset" /\ size <= Len0(B.v))
    => /\ ret.j = upper_bound(t, ret.u)
       /\ B = BrownianAdvance(BrownianInit(Len0(B.v)), ret.u, ret.r)
       /\ \A k \in ret.j .. size - 1 : \A x \in FreshSamples(k, ret.u, ret.r) : f_[k] = x

\* C6: after a successful advance returning j, every index k >= j with
\* sigma[k] = 0 holds exactly phi[k], whatever was read for B[k] and whatever u.
C6_ZeroVolKeepsQuote ==
    AdvanceOk => \A k \in ret.j .. size - 1 : sigma[k] = 0 => EqF(f_[k], phi[k])

\* the same, for the indices that are components of the driver
C6_ZeroVolKeepsQuoteInRange ==
    AdvanceOk
    => \A k \in (ret.j .. size - 1) \cap DOMAIN B.v : sigma[k] = 0 => EqF(f_[k], phi[k])

\* the values advance can have read for B[k]
ReadValues(k) == IF k \in DOMAIN B.v THEN {B.v[k]} ELSE GarbageVals

\* f_[k] is the double the code computes from b: the futures value less
\* sigma[k]^2 (t[k-1]-u)^2 / 2 and not greater than the futures value (k > 0),
\* the futures value itself (k = 0). A NaN result is that same double, and no
\* NaN is greater than anything.
Corrected(k, b) ==
    LET sdt == IF k > 0 THEN MulF(sigma[k], t[k - 1] - ret.u) ELSE 0
    IN IF k > 0
       THEN /\ f_[k] = SubF(futures(k, ret.u, b), HalfF(MulF(sdt, sdt)))
            /\ ~GtF(f_[k], futures(k, ret.u, b))
       ELSE f_[k] = futures(k, ret.u, b)

\* C7: after a successful advance returning j, for k >= j and k > 0 the value
\* written is the futures value minus sigma[k]^2 (t[k-1]-u)^2 / 2 and so never
\* greater than the futures value, also for negative t[k-1]-u; for k = 0 it is
\* the futures value itself.
C7_ConvexityCorrection ==
    AdvanceOk => \A k \in ret.j .. size - 1 : \E b \in ReadValues(k) : Corrected(k, b)

\* a successful advance(u) with t[j-1] < u < t[j], j > 0 and sigma[j] # 0 wrote
\* at j a value strictly below the futures value of the component it read
C7_Witness ==
    /\ AdvanceOk
    /\ ret.j > 0
    /\ ret.j \in DOMAIN B.v
    /\ sigma[ret.j] # 0
    /\ t[ret.j - 1] < ret.u
    /\ Corrected(ret.j, B.v[ret.j])
    /\ IsFinite(f_[ret.j])
    /\ f_[ret.j] < futures(ret.j, ret.u, B.v[ret.j])

\* the preconditions of the constructor
ValidTermStructure == size >= 1 /\ StrictlyIncreasing(t) /\ sigma[0] = 0

\* C8: a model whose inputs violate a precondition is never constructed, so
\* every model that reset and advance act on has a valid term structure.
C8_OnlyValidModels == constructed => ValidTermStructure

\* C9: the driver's path time is 0 after reset, u after a successful
\* advance(u) and unchanged by a failed one; a successful advance advances
\* the driver once, before any component is read or index written; so the
\* path time is the u of the last successful advance since the last reset.
C9_PathTime ==
    [][/\ ret'.op = "reset" => B'.t = 0
       /\ (ret'.op = "advance" /\ ret'.status = "ok")
          => /\ B'.t = ret'.u
             /\ trace'[1].e = "advance"
             /\ \A i \in 2 .. Len(trace') : trace'[i].e \in {"read", "write"}
       /\ (ret'.op = "advance" /\ ret'.status = "OutOfRange")
          => (B'.t = B.t /\ Events("advance")' = {})
       /\ constructed' => B'.t = path']_vars

C9_Witness ==
    /\ AdvanceOk
    /\ ret.after = "advance"
    /\ ret.u > 0
    /\ B.t = ret.u
    /\ Len(trace) >= 3

\* C10: every driver component index a call reads is below the driver's
\* dimension d.
C10_ReadsInRange == \A k \in Events("read") : k \in DOMAIN B.v

====
